---- MODULE Spec2Model ----
(***************************************************************************)
(* PassionDSA (src/App.tsx): the App component's state (interest, concept, *)
(* stack, queue), its click handlers, the derived values (exp, demoItems,  *)
(* canVisualize) and the pure function generateExplanation.                *)
(*                                                                         *)
(* JavaScript arrays are 0-indexed; they are modelled as TLA+ sequences    *)
(* and read through At, which adds the offset.  null is the string "null", *)
(* the value of a function that returns nothing is the record Undefined.   *)
(***************************************************************************)
EXTENDS Integers, Sequences, FiniteSets, TLC

VARIABLES interest, concept, stack, queue, pushCount, enqCount, lastOp, pre

vars ==
  <<interest, concept, stack, queue, pushCount, enqCount, lastOp, pre>>

\* Appends allowed to one sequence between two resets.
MaxAppends ==
  6

NULL ==
  "null"

Undefined ==
  [undefined |-> TRUE]

INTERESTS ==
  <<"Dance", "Poetry", "Cooking", "Sports", "Gaming", "Music">>

CONCEPTS ==
  <<"Stack", "Queue", "Hash Map", "Binary Search", "Recursion", "Graph">>

Range(s) ==
  {s[k] : k \in 1..Len(s)}

Max(a, b) ==
  IF a >= b THEN a ELSE b

Min(a, b) ==
  IF a <= b THEN a ELSE b

\* arr[k] of JavaScript: the element at 0-based index k, undefined outside.
At(arr, k) ==
  IF k \in 0..(Len(arr) - 1) THEN arr[k + 1] ELSE "undefined"

\* Array.prototype.slice(start, end): a negative index counts from the end,
\* both are clamped to 0..length, the result holds indices start..end-1.
slice(s, start, end) ==
  LET len == Len(s)
      from == IF start < 0 THEN Max(len + start, 0) ELSE Min(start, len)
      to == IF end < 0 THEN Max(len + end, 0) ELSE Min(end, len)
  IN  SubSeq(s, from + 1, to)

\* Array.prototype.slice(start): end defaults to the length.
sliceFrom(s, start) ==
  slice(s, start, Len(s))

flavor(i) ==
  CASE i = "Dance" -> [item |-> "move", place |-> "routine", group |-> "dancers"]
    [] i = "Poetry" -> [item |-> "line", place |-> "stanza", group |-> "poems"]
    [] i = "Cooking" -> [item |-> "step", place |-> "recipe", group |-> "ingredients"]
    [] i = "Sports" -> [item |-> "play", place |-> "playbook", group |-> "players"]
    [] i = "Gaming" -> [item |-> "action", place |-> "combo", group |-> "NPCs"]
    [] i = "Music" -> [item |-> "bar", place |-> "setlist", group |-> "musicians"]

StackExplanation(f) ==
  [analogy |->
     "A Stack is like building a " \o f.place \o ": you add each " \o f.item
       \o " on top. " \o "When you undo, the last " \o f.item
       \o " you added comes off first (LIFO).",
   steps |->
     << "Push: add a " \o f.item \o " to the top of the " \o f.place \o ".",
        "Top always points to the most recent item.",
        "Pop: remove the top " \o f.item \o " first (reverse order).",
        "Great for undo, back navigation, parsing." >>,
   code |->
     "// Stack in TypeScript\n"
       \o "const stack: string[] = [];\n"
       \o "stack.push(\"" \o f.item \o " A\");\n"
       \o "stack.push(\"" \o f.item \o " B\");\n"
       \o "console.log(stack.pop()); // \"" \o f.item \o " B\"\n"
       \o "console.log(stack.pop()); // \"" \o f.item \o " A\""]

QueueExplanation(f) ==
  [analogy |->
     "A Queue is like " \o f.group
       \o " lining up: first in is first served (FIFO).",
   steps |->
     << "Enqueue: add to the back.",
        "Dequeue: remove from the front.",
        "Fair ordering, used in scheduling and BFS." >>,
   code |->
     "// Queue in TypeScript\n"
       \o "const queue: string[] = [];\n"
       \o "queue.push(\"first\");\n"
       \o "queue.push(\"second\");\n"
       \o "console.log(queue.shift()); // \"first\""]

HashMapExplanation(f) ==
  [analogy |->
     "A Hash Map is like labeled bins for your " \o f.place
       \o ": find a bin by label in O(1) average time.",
   steps |->
     << "Hash function computes a bucket index from a key.",
        "Handle collisions (chaining or open addressing).",
        "O(1) average get/set; O(n) worst-case." >>,
   code |->
     "// Map in TypeScript\n"
       \o "const m = new Map<string, number>();\n"
       \o "m.set(\"tempo\", 120);\n"
       \o "console.log(m.get(\"tempo\")); // 120"]

BinarySearchExplanation(f) ==
  [analogy |->
     "Binary Search is like guessing a BPM by halving ranges: check middle, then discard half.",
   steps |->
     << "Requires a sorted array.",
        "Pick middle, compare target.",
        "Keep the half that can contain the target." >>,
   code |->
     "function bsearch(a: number[], x: number) {\n"
       \o "  let l = 0, r = a.length - 1;\n"
       \o "  while (l <= r) {\n"
       \o "    const mid = (l + r) >> 1;\n"
       \o "    if (a[mid] === x) return mid;\n"
       \o "    if (a[mid] < x) l = mid + 1; else r = mid - 1;\n"
       \o "  }\n"
       \o "  return -1;\n"
       \o "}"]

RecursionExplanation(f) ==
  [analogy |->
     "Recursion is like repeating a motif in a " \o f.place
       \o ": each call tackles a smaller version until a base case.",
   steps |->
     << "Define base case.",
        "Make progress toward base.",
        "Trust the function to solve smaller subproblems." >>,
   code |->
     "function factorial(n: number): number {\n"
       \o "  if (n <= 1) return 1;        // base case\n"
       \o "  return n * factorial(n - 1); // recursive step\n"
       \o "}"]

GraphExplanation(f) ==
  [analogy |->
     "A Graph connects " \o f.group
       \o " with relationships (edges). Explore paths, cycles, and communities.",
   steps |->
     << "Nodes (vertices) + edges (directed/undirected).",
        "DFS explores depth-first; BFS explores breadth-first.",
        "Used in maps, social networks, dependency graphs." >>,
   code |->
     "const g: Record<string, string[]> = {\n"
       \o "  A: [\"B\",\"C\"], B:[\"D\"], C:[\"D\"], D:[]\n"
       \o "};\n"
       \o "// BFS from A\n"
       \o "function bfs(start: string) {\n"
       \o "  const q = [start], seen = new Set([start]);\n"
       \o "  while (q.length) {\n"
       \o "    const v = q.shift()!;\n"
       \o "    for (const n of g[v]) if (!seen.has(n)) { seen.add(n); q.push(n); }\n"
       \o "  }\n"
       \o "  return seen;\n"
       \o "}"]

\* The switch of generateExplanation with its last case missing.
generateExplanationNoGraph(i, c) ==
  CASE c = "Stack" -> StackExplanation(flavor(i))
    [] c = "Queue" -> QueueExplanation(flavor(i))
    [] c = "Hash Map" -> HashMapExplanation(flavor(i))
    [] c = "Binary Search" -> BinarySearchExplanation(flavor(i))
    [] c = "Recursion" -> RecursionExplanation(flavor(i))
    [] OTHER -> Undefined

\* switch (concept): one return per case; a concept that matches no case
\* leaves the function without a return value.
generateExplanation(i, c) ==
  CASE c = "Stack" -> StackExplanation(flavor(i))
    [] c = "Queue" -> QueueExplanation(flavor(i))
    [] c = "Hash Map" -> HashMapExplanation(flavor(i))
    [] c = "Binary Search" -> BinarySearchExplanation(flavor(i))
    [] c = "Recursion" -> RecursionExplanation(flavor(i))
    [] c = "Graph" -> GraphExplanation(flavor(i))
    [] OTHER -> Undefined

\* useMemo(() => interest && concept ? generateExplanation(...) : null)
exp ==
  IF interest # NULL /\ concept # NULL
    THEN generateExplanation(interest, concept)
    ELSE [null |-> TRUE]

\* useMemo over [interest]: the four labels the demo cycles through.
demoItems ==
  IF interest = NULL
    THEN <<"Item A", "Item B", "Item C", "Item D">>
    ELSE LET map == [i \in Range(INTERESTS) |->
                       CASE i = "Dance" -> "Move"
                         [] i = "Poetry" -> "Line"
                         [] i = "Cooking" -> "Step"
                         [] i = "Sports" -> "Play"
                         [] i = "Gaming" -> "Action"
                         [] i = "Music" -> "Bar"]
             base == map[interest]
         IN  <<base \o " A", base \o " B", base \o " C", base \o " D">>

canVisualizeAlways ==
  TRUE

canVisualize ==
  concept = "Stack" \/ concept = "Queue"

ConceptNeverDisabled ==
  FALSE

\* disabled={!interest} on every concept button
ConceptDisabled ==
  interest = NULL

\* {interest && concept && ( ... )}: the content grid is rendered.
ContentRendered ==
  interest # NULL /\ concept # NULL

\* canVisualize ? <controls> : <hint>
ControlsRendered ==
  ContentRendered /\ canVisualize

\* concept === "Stack" ? <Push, Pop> : <Enqueue, Dequeue>
StackControlsRendered ==
  ControlsRendered /\ concept = "Stack"

QueueControlsRendered ==
  ControlsRendered /\ ~(concept = "Stack")

PopDisabledQueue ==
  Len(queue) = 0

\* disabled={stack.length === 0}
PopDisabled ==
  Len(stack) = 0

\* disabled={queue.length === 0}
DequeueDisabled ==
  Len(queue) = 0

\* The label chosen by a count of appends instead of the current length.
PushUpdaterCounter(s) ==
  Append(s, At(demoItems, pushCount % Len(demoItems)))

\* (s) => [...s, demoItems[s.length % demoItems.length]]
PushUpdater(s) ==
  Append(s, At(demoItems, Len(s) % Len(demoItems)))

PopUpdaterShift(s) ==
  sliceFrom(s, 1)

\* (s) => s.slice(0, -1)
PopUpdater(s) ==
  slice(s, 0, -1)

\* (q) => [...q, demoItems[q.length % demoItems.length]]
EnqueueUpdater(q) ==
  Append(q, At(demoItems, Len(q) % Len(demoItems)))

DequeueUpdaterPop(q) ==
  slice(q, 0, -1)

\* (q) => q.slice(1)
DequeueUpdater(q) ==
  sliceFrom(q, 1)

\* History: the state a handler started from, and which handler ran last.
Snapshot ==
  [interest |-> interest, concept |-> concept, stack |-> stack,
   queue |-> queue, pushCount |-> pushCount, enqCount |-> enqCount]

Ran(op) ==
  lastOp' = op /\ pre' = Snapshot

Init ==
  /\ interest = NULL
  /\ concept = NULL
  /\ stack = <<>>
  /\ queue = <<>>
  /\ pushCount = 0
  /\ enqCount = 0
  /\ lastOp = "Init"
  /\ pre = Snapshot

SelectInterestKeepSeqs(i) ==
  /\ interest' = i
  /\ concept' = NULL
  /\ UNCHANGED <<stack, queue, pushCount, enqCount>>
  /\ Ran("SelectInterest")

\* Interest button onClick.
SelectInterest(i) ==
  /\ interest' = i
  /\ concept' = NULL
  /\ stack' = <<>>
  /\ queue' = <<>>
  /\ pushCount' = 0
  /\ enqCount' = 0
  /\ Ran("SelectInterest")

SelectConceptKeepSeqs(c) ==
  /\ ~ConceptDisabled
  /\ concept' = c
  /\ UNCHANGED <<interest, stack, queue, pushCount, enqCount>>
  /\ Ran("SelectConcept")

\* Concept button onClick; a disabled button dispatches no click.
SelectConcept(c) ==
  /\ ~ConceptDisabled
  /\ concept' = c
  /\ stack' = <<>>
  /\ queue' = <<>>
  /\ pushCount' = 0
  /\ enqCount' = 0
  /\ UNCHANGED interest
  /\ Ran("SelectConcept")

\* Push button onClick.
Push ==
  /\ StackControlsRendered
  /\ pushCount < MaxAppends
  /\ stack' = PushUpdater(stack)
  /\ pushCount' = pushCount + 1
  /\ UNCHANGED <<interest, concept, queue, enqCount>>
  /\ Ran("Push")

\* The Pop button's onClick handler, run whatever the disabled attribute.
PopHandler ==
  /\ StackControlsRendered
  /\ stack' = PopUpdater(stack)
  /\ UNCHANGED <<interest, concept, queue, pushCount, enqCount>>
  /\ Ran("Pop")

\* A click on the Pop button: dispatched only while it is not disabled.
Pop ==
  /\ ~PopDisabled
  /\ PopHandler

\* Enqueue button onClick.
Enqueue ==
  /\ QueueControlsRendered
  /\ enqCount < MaxAppends
  /\ queue' = EnqueueUpdater(queue)
  /\ enqCount' = enqCount + 1
  /\ UNCHANGED <<interest, concept, stack, pushCount>>
  /\ Ran("Enqueue")

\* The Dequeue button's onClick handler, run whatever the disabled attribute.
DequeueHandler ==
  /\ QueueControlsRendered
  /\ queue' = DequeueUpdater(queue)
  /\ UNCHANGED <<interest, concept, stack, pushCount, enqCount>>
  /\ Ran("Dequeue")

\* A click on the Dequeue button: dispatched only while it is not disabled.
Dequeue ==
  /\ ~DequeueDisabled
  /\ DequeueHandler

ResetStackOnly ==
  /\ ControlsRendered
  /\ stack' = <<>>
  /\ pushCount' = 0
  /\ UNCHANGED <<interest, concept, queue, enqCount>>
  /\ Ran("Reset")

\* Reset button onClick.
Reset ==
  /\ ControlsRendered
  /\ stack' = <<>>
  /\ queue' = <<>>
  /\ pushCount' = 0
  /\ enqCount' = 0
  /\ UNCHANGED <<interest, concept>>
  /\ Ran("Reset")

\* The user interface: every click the rendered page can dispatch.
Next ==
  \/ \E i \in Range(INTERESTS) : SelectInterest(i)
  \/ \E c \in Range(CONCEPTS) : SelectConcept(c)
  \/ Push
  \/ Pop
  \/ Enqueue
  \/ Dequeue
  \/ Reset

Spec ==
  Init /\ [][Next]_vars

\* The handlers themselves: the removal handlers are also run on an empty
\* sequence, as when they are invoked without going through the button.
NextHandlers ==
  \/ \E i \in Range(INTERESTS) : SelectInterest(i)
  \/ \E c \in Range(CONCEPTS) : SelectConcept(c)
  \/ Push
  \/ PopHandler
  \/ Enqueue
  \/ DequeueHandler
  \/ Reset

SpecHandlers ==
  Init /\ [][NextHandlers]_vars

-----------------------------------------------------------------------------
Last(s) ==
  s[Len(s)]

Front(s) ==
  SubSeq(s, 1, Len(s) - 1)

FallbackLabels ==
  {"Item A", "Item B", "Item C", "Item D"}

\* C1 (as stated): the k-th append since the last reset, counting every
\* append whatever removals happened in between, adds template[k mod 4].
C1_AppendCounterCycle ==
  /\ lastOp = "Push" =>
       Last(stack) = At(demoItems, pre.pushCount % 4)
  /\ lastOp = "Enqueue" =>
       Last(queue) = At(demoItems, pre.enqCount % 4)

\* C1 (amended): an append adds template[len mod 4], where len is the length
\* of the sequence just before the append; removals shorten len and thereby
\* move the cycle back.
C1_AppendLengthCycle ==
  /\ lastOp = "Push" =>
       Last(stack) = At(demoItems, Len(pre.stack) % 4)
  /\ lastOp = "Enqueue" =>
       Last(queue) = At(demoItems, Len(pre.queue) % 4)

\* A push after an earlier pop: the count of appends and the length differ.
C1_Witness ==
  /\ lastOp = "Push"
  /\ pre.pushCount = 2
  /\ Len(pre.stack) = 1
  /\ interest = "Music"
  /\ stack = <<"Bar A", "Bar B">>

\* C2: Push and Enqueue add exactly one element at the end, Pop on a
\* non-empty stack removes exactly the last element, Dequeue on a non-empty
\* queue removes exactly the first; the other elements keep their places.
C2_OneElementAtCorrectEnd ==
  /\ lastOp = "Push" =>
       /\ Len(stack) = Len(pre.stack) + 1
       /\ Front(stack) = pre.stack
       /\ queue = pre.queue
  /\ lastOp = "Enqueue" =>
       /\ Len(queue) = Len(pre.queue) + 1
       /\ Front(queue) = pre.queue
       /\ stack = pre.stack
  /\ (lastOp = "Pop" /\ Len(pre.stack) > 0) =>
       /\ Len(stack) = Len(pre.stack) - 1
       /\ stack = Front(pre.stack)
       /\ queue = pre.queue
  /\ (lastOp = "Dequeue" /\ Len(pre.queue) > 0) =>
       /\ Len(queue) = Len(pre.queue) - 1
       /\ queue = Tail(pre.queue)
       /\ stack = pre.stack

\* Sports/Queue: two enqueues, then one dequeue, leave [Play B].
C2_Witness ==
  /\ lastOp = "Dequeue"
  /\ interest = "Sports"
  /\ concept = "Queue"
  /\ pre.queue = <<"Play A", "Play B">>
  /\ queue = <<"Play B">>

\* C3: right after an interest selection, a concept selection or Reset both
\* sequences are empty; an interest selection also clears the concept.
C3_SelectionAndResetClear ==
  /\ lastOp \in {"SelectInterest", "SelectConcept", "Reset"} =>
       stack = <<>> /\ queue = <<>>
  /\ lastOp = "SelectInterest" => concept = NULL

\* The queue held items when Reset ran.
C3_Witness ==
  /\ lastOp = "Reset"
  /\ Len(pre.queue) > 1
  /\ queue = <<>>
  /\ stack = <<>>

\* C4: a removal handler run on an empty sequence leaves it empty and
\* changes nothing else; the Pop (Dequeue) control is disabled exactly when
\* the displayed stack (queue) has length 0.
C4_RemoveOnEmptyIsNoOp ==
  /\ (lastOp = "Pop" /\ pre.stack = <<>>) =>
       /\ stack = <<>>
       /\ <<interest, concept, queue>> = <<pre.interest, pre.concept, pre.queue>>
  /\ (lastOp = "Dequeue" /\ pre.queue = <<>>) =>
       /\ queue = <<>>
       /\ <<interest, concept, stack>> = <<pre.interest, pre.concept, pre.stack>>
  /\ StackControlsRendered => (PopDisabled <=> Len(stack) = 0)
  /\ QueueControlsRendered => (DequeueDisabled <=> Len(queue) = 0)

\* The Pop handler has run on an empty stack.
C4_Witness ==
  /\ lastOp = "Pop"
  /\ pre.stack = <<>>
  /\ stack = <<>>
  /\ PopDisabled

\* C5: for every (interest, concept) pair generateExplanation returns a
\* record with a non-empty analogy, 2 to 4 steps and a non-empty code
\* snippet; no pair leaves the switch without a result.
C5_ExplanationTotal ==
  ContentRendered =>
    /\ exp # Undefined
    /\ DOMAIN exp = {"analogy", "steps", "code"}
    /\ Len(exp.analogy) > 0
    /\ Len(exp.steps) \in 2..4
    /\ \A k \in 1..Len(exp.steps) : Len(exp.steps[k]) > 0
    /\ Len(exp.code) > 0

\* The last case of the switch, with the last interest.
C5_Witness ==
  /\ interest = "Music"
  /\ concept = "Graph"
  /\ Len(exp.steps) = 3

\* C6: a selected concept implies a selected interest.
C6_ConceptImpliesInterest ==
  concept # NULL => interest # NULL

\* A concept has been selected.
C6_Witness ==
  /\ lastOp = "SelectConcept"
  /\ concept # NULL
  /\ interest # NULL

\* C7: every label in the stack or the queue is one of the four demo labels
\* of the selected interest, and none is a generic fallback label.
C7_LabelsOfActiveInterest ==
  \A l \in Range(stack) \cup Range(queue) :
    /\ interest # NULL
    /\ l \in Range(demoItems)
    /\ l \notin FallbackLabels

\* Another interest is selected while the stack holds the labels of the
\* previous one.
C7_Witness ==
  /\ lastOp = "SelectInterest"
  /\ pre.interest = "Music"
  /\ pre.stack = <<"Bar A", "Bar B">>
  /\ interest = "Dance"
  /\ stack = <<>>

\* C8: Push and Pop act only with concept "Stack", Enqueue and Dequeue only
\* with "Queue", Reset only with one of the two, all only with an interest;
\* with any other concept, or none, no control is rendered.
C8_ControlsOnlyForStackAndQueue ==
  /\ lastOp \in {"Push", "Pop"} =>
       pre.concept = "Stack" /\ pre.interest # NULL
  /\ lastOp \in {"Enqueue", "Dequeue"} =>
       pre.concept = "Queue" /\ pre.interest # NULL
  /\ lastOp = "Reset" =>
       pre.concept \in {"Stack", "Queue"} /\ pre.interest # NULL
  /\ (concept \notin {"Stack", "Queue"} \/ interest = NULL) =>
       ~(ENABLED Push) /\ ~(ENABLED Pop) /\ ~(ENABLED Enqueue)
         /\ ~(ENABLED Dequeue) /\ ~(ENABLED Reset)
  /\ (ENABLED Push \/ ENABLED Pop) => concept = "Stack"
  /\ (ENABLED Enqueue \/ ENABLED Dequeue) => concept = "Queue"

\* Graph is selected with an interest.
C8_Witness ==
  /\ interest = "Cooking"
  /\ concept = "Graph"
  /\ ContentRendered
  /\ ~ControlsRendered

\* C9: the stack always equals the cyclic prefix of the template:
\* stack[i] = template[i mod 4] for every index i below its length.
C9_StackIsCyclicPrefix ==
  \A i \in 0..(Len(stack) - 1) : At(stack, i) = At(demoItems, i % 4)

\* Music/Stack: five pushes, then one pop.
C9_Witness ==
  /\ lastOp = "Pop"
  /\ interest = "Music"
  /\ pre.stack = <<"Bar A", "Bar B", "Bar C", "Bar D", "Bar A">>
  /\ stack = <<"Bar A", "Bar B", "Bar C", "Bar D">>

\* C10: a non-empty stack implies concept "Stack", a non-empty queue implies
\* concept "Queue"; so at most one of the two is non-empty.
C10_NoStaleSequence ==
  /\ stack # <<>> => concept = "Stack"
  /\ queue # <<>> => concept = "Queue"
  /\ stack = <<>> \/ queue = <<>>

\* A concept is selected while the stack of the previous concept holds items.
C10_Witness ==
  /\ lastOp = "SelectConcept"
  /\ pre.concept = "Stack"
  /\ Len(pre.stack) > 0
  /\ concept = "Queue"

====
